---- MODULE Spec2Model ----
(***************************************************************************)
(* A model of src/script.js, the application logic of the personal         *)
(* dashboard: the weather display (interpretWeatherCode, fetchWeather),    *)
(* the notes list (renderNotes, initNotes and its click handlers) and the  *)
(* calendar viewer (initClient, updateSigninStatus, listUpcomingEvents).   *)
(*                                                                         *)
(* The script is single-threaded and event-driven: every action below is   *)
(* one run-to-completion step of the script, i.e. one handler or one        *)
(* continuation of an async function between two awaits.  The external     *)
(* services (HTTP endpoint, Firestore, gapi) and the user are the          *)
(* environment: they choose the outcome of every request and every input.  *)
(*                                                                         *)
(* The three components share no state but the console and the set of      *)
(* uncaught errors.  SpecWeather, SpecNotes and SpecCalendar each follow    *)
(* the bootstrap (initGoogle) by the steps of one component, the other two *)
(* resting where the bootstrap left them.                                  *)
(***************************************************************************)
EXTENDS Integers, Sequences, FiniteSets, Bags, TLC

VARIABLES
    booted,      \* window.initGoogle has run
    console,     \* the set of messages written with console.warn/console.error
    uncaught,    \* call sites whose failure reached no catch boundary
    \* ---- weather
    wpc,         \* per location: where its fetchWeather call stands
    wdata,       \* per location: what its HTTP exchange ended in (a failure, or the payload)
    interpArg,   \* per location: the argument interpretWeatherCode was called with, if it was
    text,        \* textContent of the four weather slots, by element id
    \* ---- notes
    db,          \* the Firestore handle: "firestore", or "undefined" when init threw
    saveButton,  \* #save-note: [disabled, textContent]
    subscribed,  \* an onSnapshot listener is registered on the notes collection
    saveHandler, \* the click listener of #save-note is registered
    input,       \* #note-input .value, a sequence of characters
    pending,     \* the bag of store requests in flight (addDoc / deleteDoc)
    notesList,   \* #notes-list: its <li> items, each [text, del]
    lastSnapshot,\* the snapshot most recently handed to the listener
    delivered,   \* a snapshot has been delivered
    lastOp,      \* which notes handler ran last, and the branch it took
    \* ---- calendar
    gpc,         \* gapi: "unloaded", "loading", "initialising", "ready", "failed"
    listening,   \* updateSigninStatus is registered with isSignedIn.listen
    isSignedIn,  \* gapi.auth2 sign-in state
    authorizeButton, \* #authorize_button style.display
    signoutButton,   \* #signout_button style.display
    clickHandlers,   \* onclick of the two calendar buttons is attached
    events,      \* #events: its <li> items
    listReqs,    \* events.list requests in flight
    authReqs,    \* signIn / signOut requests in flight
    lastResponse,\* the events.list response most recently handled
    calOp        \* which calendar handler ran last, and the branch it took

vars == << booted, console, uncaught, wpc, wdata, interpArg, text,
           db, saveButton, subscribed, saveHandler, input, pending, notesList,
           lastSnapshot, delivered, lastOp,
           gpc, listening, isSignedIn, authorizeButton, signoutButton, clickHandlers,
           events, listReqs, authReqs, lastResponse, calOp >>

weatherVars == << wpc, wdata, interpArg, text >>
notesVars == << db, saveButton, subscribed, saveHandler, input, pending,
                notesList, lastSnapshot, delivered, lastOp >>
calendarVars == << gpc, listening, isSignedIn, authorizeButton, signoutButton,
                   clickHandlers, events, listReqs, authReqs, lastResponse,
                   calOp >>

-----------------------------------------------------------------------------
(* JavaScript values that reach the script from JSON.                      *)

Undefined == [kind |-> "undefined", v |-> 0]
Num(n) == [kind |-> "num", v |-> n]

\* !x for the values above: undefined and null are falsy, an object is truthy.
Falsy(x) == x.kind \in {"undefined", "null"}

-----------------------------------------------------------------------------
(* Weather code interpretation.                                            *)

weatherCodeMap ==
    (0 :> "Clear sky") @@ (1 :> "Mainly clear") @@ (2 :> "Partly cloudy") @@
    (3 :> "Overcast") @@ (45 :> "Fog") @@ (48 :> "Depositing rime fog") @@
    (51 :> "Light drizzle") @@ (53 :> "Moderate drizzle") @@
    (55 :> "Dense drizzle") @@ (56 :> "Light freezing drizzle") @@
    (57 :> "Dense freezing drizzle") @@ (61 :> "Slight rain") @@
    (63 :> "Moderate rain") @@ (65 :> "Heavy rain") @@
    (66 :> "Light freezing rain") @@ (67 :> "Heavy freezing rain") @@
    (71 :> "Slight snowfall") @@ (73 :> "Moderate snowfall") @@
    (75 :> "Heavy snowfall") @@ (77 :> "Snow grains") @@
    (80 :> "Slight rain showers") @@ (81 :> "Moderate rain showers") @@
    (82 :> "Violent rain showers") @@ (85 :> "Slight snow showers") @@
    (86 :> "Heavy snow showers") @@ (95 :> "Thunderstorm") @@
    (96 :> "Thunderstorm with slight hail") @@
    (99 :> "Thunderstorm with heavy hail")

\* A bug: `code ? weatherCodeMap[code] : fallback`, which loses code 0.
interpretWeatherCode_zeroLost(code) ==
    IF code.kind = "num" /\ code.v # 0 /\ code.v \in DOMAIN weatherCodeMap
    THEN weatherCodeMap[code.v]
    ELSE "Unknown conditions"

\* weatherCodeMap[code] || 'Unknown conditions': the property named by the
\* code's string form, or the fallback when there is none (or it is falsy).
interpretWeatherCode(code) ==
    IF /\ code.kind = "num"
       /\ code.v \in DOMAIN weatherCodeMap
       /\ weatherCodeMap[code.v] # ""
    THEN weatherCodeMap[code.v]
    ELSE "Unknown conditions"

-----------------------------------------------------------------------------
(* Template-literal formatting of the temperature.  A temperature is a     *)
(* number with at most one decimal, held in tenths of a degree.            *)

Digit(d) ==
    CASE d = 0 -> "0" [] d = 1 -> "1" [] d = 2 -> "2" [] d = 3 -> "3"
      [] d = 4 -> "4" [] d = 5 -> "5" [] d = 6 -> "6" [] d = 7 -> "7"
      [] d = 8 -> "8" [] d = 9 -> "9"

RECURSIVE NatToString(_)
NatToString(n) ==
    IF n < 10 THEN Digit(n) ELSE NatToString(n \div 10) \o Digit(n % 10)

\* Number::toString of tenths/10: no trailing ".0", a leading "-" when negative.
NumberToString(tenths) ==
    LET a == IF tenths < 0 THEN -tenths ELSE tenths
        s == NatToString(a \div 10) \o
             (IF a % 10 = 0 THEN "" ELSE "." \o Digit(a % 10))
    IN  IF tenths < 0 THEN "-" \o s ELSE s

\* ToString of a value interpolated into a template literal.
JSToString(x) ==
    CASE x.kind = "undefined" -> "undefined"
      [] x.kind = "null" -> "null"
      [] x.kind = "num" -> NumberToString(x.v)

\* A bug: the suffix is left out of the template.
TemperatureText_noSuffix(temperature) == JSToString(temperature)

\* `${temperature}°C`
TemperatureText(temperature) == JSToString(temperature) \o "°C"

-----------------------------------------------------------------------------
(* The weather fetcher.                                                    *)

Loc == {"aarhus", "newton"}
tempElemId(l) == IF l = "aarhus" THEN "aarhus-temp" ELSE "newton-temp"
descElemId(l) == IF l = "aarhus" THEN "aarhus-desc" ELSE "newton-desc"
WeatherElems == {tempElemId(l) : l \in Loc} \cup {descElemId(l) : l \in Loc}

\* What a slot holds before the script writes it (the page's markup): a
\* placeholder that is none of the texts the script writes.
InitialText == "Loading..."

\* Temperatures the endpoint may report, in tenths of a degree.
Temps == {214, 210, 0, -35}
\* Weather codes the endpoint may report: the table's keys and three others.
Codes == DOMAIN weatherCodeMap \cup {13, -1, 9999}

NotCalled == [kind |-> "not called", v |-> 0]

\* data.current_weather: missing, null, or an object whose two fields are a
\* number or missing.
NoCurrent(k) == [kind |-> k, temperature |-> Undefined, weathercode |-> Undefined]
CurrentWeathers ==
    {NoCurrent("undefined"), NoCurrent("null")} \cup
    [kind : {"object"},
     temperature : {Num(t) : t \in Temps} \cup {Undefined},
     weathercode : {Num(c) : c \in Codes} \cup {Undefined}]

\* What response.json() resolves with: the JSON value null, or an object.
Payloads ==
    {[kind |-> "null", current_weather |-> NoCurrent("undefined")]} \cup
    [kind : {"object"}, current_weather : CurrentWeathers]

\* wdata before the exchange ended, and for the three ways it can fail.
NoData(k) == [kind |-> k, current_weather |-> NoCurrent("undefined")]
FailureKinds == {"http status", "network", "parse"}

\* A bug: no catch block, the error leaves fetchWeather as a rejection.
fetchWeatherCatch_absent(l) ==
    /\ uncaught' = uncaught \cup {"fetchWeather"}
    /\ UNCHANGED << console, text >>

\* A bug: the catch block writes fixed element ids, not its arguments.
fetchWeatherCatch_fixedIds(l) ==
    /\ console' = console \cup {"Error fetching weather:"}
    /\ text' = [text EXCEPT !["aarhus-temp"] = "Error fetching weather",
                            !["aarhus-desc"] = ""]
    /\ UNCHANGED uncaught

\* lines 133-137: the catch block of fetchWeather.
fetchWeatherCatch(l) ==
    /\ console' = console \cup {"Error fetching weather:"}
    /\ text' = [text EXCEPT ![tempElemId(l)] = "Error fetching weather",
                            ![descElemId(l)] = ""]
    /\ UNCHANGED uncaught

\* A bug: `current === null`, which lets a missing field through.
NoCurrentWeather_nullOnly(current) == current.kind = "null"

\* line 124: !current
NoCurrentWeather(current) == Falsy(current)

\* lines 118-121: the promise of fetch(url) resolves; a response that is not
\* ok throws into the catch block.
fetchResolved(l) ==
    /\ wpc[l] = "await fetch"
    /\ \E ok \in BOOLEAN :
         IF ok
         THEN /\ wpc' = [wpc EXCEPT ![l] = "await json"]
              /\ UNCHANGED << wdata, console, text, uncaught >>
         ELSE /\ wpc' = [wpc EXCEPT ![l] = "done"]
              /\ wdata' = [wdata EXCEPT ![l] = NoData("http status")]
              /\ fetchWeatherCatch(l)
    /\ UNCHANGED interpArg
    /\ UNCHANGED << booted, notesVars, calendarVars >>

\* line 118: the promise of fetch(url) rejects (a network exception).
fetchRejected(l) ==
    /\ wpc[l] = "await fetch"
    /\ wpc' = [wpc EXCEPT ![l] = "done"]
    /\ wdata' = [wdata EXCEPT ![l] = NoData("network")]
    /\ fetchWeatherCatch(l)
    /\ UNCHANGED interpArg
    /\ UNCHANGED << booted, notesVars, calendarVars >>

\* line 122: the promise of response.json() rejects (the body does not parse).
jsonRejected(l) ==
    /\ wpc[l] = "await json"
    /\ wpc' = [wpc EXCEPT ![l] = "done"]
    /\ wdata' = [wdata EXCEPT ![l] = NoData("parse")]
    /\ fetchWeatherCatch(l)
    /\ UNCHANGED interpArg
    /\ UNCHANGED << booted, notesVars, calendarVars >>

\* lines 122-132: response.json() resolves with data.  Reading a property of
\* null throws a TypeError into the catch block.
jsonResolved(l) ==
    /\ wpc[l] = "await json"
    /\ \E data \in Payloads :
         /\ wdata' = [wdata EXCEPT ![l] = data]
         /\ wpc' = [wpc EXCEPT ![l] = "done"]
         /\ IF data.kind = "null"
            THEN /\ fetchWeatherCatch(l)
                 /\ UNCHANGED interpArg
            ELSE LET current == data.current_weather IN
                 IF NoCurrentWeather(current)
                 THEN /\ text' = [text EXCEPT
                                    ![tempElemId(l)] = "No data available",
                                    ![descElemId(l)] = ""]
                      /\ UNCHANGED << interpArg, console, uncaught >>
                 ELSE /\ text' = [text EXCEPT
                                    ![tempElemId(l)] =
                                        TemperatureText(current.temperature),
                                    ![descElemId(l)] =
                                        interpretWeatherCode(current.weathercode)]
                      /\ interpArg' = [interpArg EXCEPT
                                         ![l] = current.weathercode]
                      /\ UNCHANGED << console, uncaught >>
    /\ UNCHANGED << booted, notesVars, calendarVars >>

-----------------------------------------------------------------------------
(* The notes list.                                                         *)

\* Longest text of #note-input, and most store requests in flight at once.
MaxInputLen == 2
MaxPending == 2

Whitespace == {" "}
Chars == Whitespace \cup {"a"}
Inputs == UNION {[1..n -> Chars] : n \in 0..MaxInputLen}

\* Documents of the notes collection: store-assigned ids, any text.
DocIds == {"n1", "n2"}
DocTexts == {<< "a" >>, << "a", " ", "a" >>}
Docs == [id : DocIds, text : DocTexts]

\* The snapshots the store may deliver: documents of distinct ids, in any order.
Snapshots ==
    {s \in UNION {[1..n -> Docs] : n \in 0..Cardinality(DocIds)} :
        \A i, j \in 1..Len(s) : i # j => s[i].id # s[j].id}

\* String.prototype.trim: the text without leading and trailing whitespace.
RECURSIVE TrimStart(_)
TrimStart(s) ==
    IF s # << >> /\ Head(s) \in Whitespace THEN TrimStart(Tail(s)) ELSE s

RECURSIVE TrimEnd(_)
TrimEnd(s) ==
    IF s # << >> /\ s[Len(s)] \in Whitespace
    THEN TrimEnd(SubSeq(s, 1, Len(s) - 1))
    ELSE s

\* A bug: only the leading whitespace is removed.
Trim_startOnly(s) == TrimStart(s)

Trim(s) == TrimEnd(TrimStart(s))

AddDocReq(t) == [op |-> "addDoc", text |-> t, id |-> ""]
DeleteDocReq(i) == [op |-> "deleteDoc", text |-> << >>, id |-> i]
InFlight(r) == r \in BagToSet(pending)
Issue(r) == pending (+) SetToBag({r})
Settle(r) == pending (-) SetToBag({r})

\* lines 152-166: one <li> per document, appended in the snapshot's order;
\* its delete button closes over the document's id.
RECURSIVE AppendItems(_, _)
AppendItems(list, snapshot) ==
    IF snapshot = << >>
    THEN list
    ELSE AppendItems(Append(list, [text |-> Head(snapshot).text,
                                   del |-> Head(snapshot).id]),
                     Tail(snapshot))

\* A bug: the list is not emptied before the items are appended.
renderNotes_noClear(snapshot) ==
    notesList' = AppendItems(notesList, snapshot)

\* lines 149-167: renderNotes empties #notes-list and rebuilds it.
renderNotes(snapshot) ==
    LET cleared == << >> IN
    notesList' = AppendItems(cleared, snapshot)

\* A bug: the handle is not tested, the subscription is made regardless.
initNotes_noGuard ==
    /\ subscribed' = TRUE
    /\ saveHandler' = TRUE
    /\ UNCHANGED saveButton

\* lines 173-198: initNotes.
initNotes ==
    IF db = "undefined"
    THEN /\ saveButton' = [disabled |-> TRUE, textContent |-> "Notes unavailable"]
         /\ UNCHANGED << subscribed, saveHandler >>
    ELSE /\ subscribed' = TRUE
         /\ saveHandler' = TRUE
         /\ UNCHANGED saveButton

\* lines 183-185: the store hands a snapshot to the listener.
snapshotDelivered ==
    /\ subscribed
    /\ \E snapshot \in Snapshots :
         /\ renderNotes(snapshot)
         /\ lastSnapshot' = snapshot
    /\ delivered' = TRUE
    /\ lastOp' = "snapshot"
    /\ UNCHANGED << db, saveButton, subscribed, saveHandler, input, pending,
                    console, uncaught >>
    /\ UNCHANGED << booted, weatherVars, calendarVars >>

\* The user edits #note-input.
typeNote ==
    /\ booted
    /\ \E v \in Inputs : input' = v
    /\ input' # input
    /\ lastOp' = "type"
    /\ UNCHANGED << db, saveButton, subscribed, saveHandler, pending,
                    notesList, lastSnapshot, delivered, console, uncaught >>
    /\ UNCHANGED << booted, weatherVars, calendarVars >>

\* A bug: the empty text is not tested, every click issues a create.
EmptyNote_unchecked(t) == FALSE

\* line 190: !text
EmptyNote(t) == t = << >>

\* lines 187-192: the click listener of #save-note, up to its await.
saveNoteHandler ==
    LET t == Trim(input) IN
    IF EmptyNote(t)
    THEN /\ lastOp' = "save click: empty"
         /\ UNCHANGED << input, pending >>
    ELSE /\ BagCardinality(pending) < MaxPending
         /\ pending' = Issue(AddDocReq(t))
         /\ lastOp' = "save click: addDoc"
         /\ UNCHANGED input

\* The user clicks #save-note.  A disabled button, or one without a
\* listener, runs no code.
saveNoteClick ==
    /\ booted
    /\ IF saveHandler /\ ~saveButton.disabled
       THEN saveNoteHandler
       ELSE /\ lastOp' = "save click: no listener"
            /\ UNCHANGED << input, pending >>
    /\ UNCHANGED << db, saveButton, subscribed, saveHandler, notesList,
                    lastSnapshot, delivered, console, uncaught >>
    /\ UNCHANGED << booted, weatherVars, calendarVars >>

\* line 193: the continuation after `await addDoc(...)`.
addDocSuccess == input' = << >>

\* A bug: the catch block clears the input as well.
addDocCatch_clears ==
    /\ console' = console \cup {"Error adding note:"}
    /\ input' = << >>
    /\ UNCHANGED uncaught

\* lines 194-196: the catch block of the click listener.
addDocCatch ==
    /\ console' = console \cup {"Error adding note:"}
    /\ UNCHANGED << input, uncaught >>

\* The store acknowledges a create.
addDocResolved ==
    /\ \E r \in BagToSet(pending) :
         /\ r.op = "addDoc"
         /\ pending' = Settle(r)
    /\ addDocSuccess
    /\ lastOp' = "addDoc resolved"
    /\ UNCHANGED << db, saveButton, subscribed, saveHandler, notesList,
                    lastSnapshot, delivered, console, uncaught >>
    /\ UNCHANGED << booted, weatherVars, calendarVars >>

\* The store refuses a create (or the request throws).
addDocRejected ==
    /\ \E r \in BagToSet(pending) :
         /\ r.op = "addDoc"
         /\ pending' = Settle(r)
    /\ addDocCatch
    /\ lastOp' = "addDoc rejected"
    /\ UNCHANGED << db, saveButton, subscribed, saveHandler, notesList,
                    lastSnapshot, delivered >>
    /\ UNCHANGED << booted, weatherVars, calendarVars >>

\* A bug: every listener is bound to the document rendered last.
DeleteTarget_lastDoc(i) == notesList[Len(notesList)].del

\* line 159: docSnap.id, as the listener of the i-th item closed over it.
DeleteTarget(i) == notesList[i].del

\* The listener that ran: the delete button of the i-th item.
DeleteOp(i) == "delete click: item " \o Digit(i)

\* lines 157-159: the user clicks the delete button of the i-th item.
deleteClick ==
    /\ \E i \in 1..Len(notesList) :
         /\ BagCardinality(pending) < MaxPending
         /\ pending' = Issue(DeleteDocReq(DeleteTarget(i)))
         /\ lastOp' = DeleteOp(i)
    /\ UNCHANGED << db, saveButton, subscribed, saveHandler, input, notesList,
                    lastSnapshot, delivered, console, uncaught >>
    /\ UNCHANGED << booted, weatherVars, calendarVars >>

\* line 159: the store acknowledges a delete; the handler ends.
deleteDocResolved ==
    /\ \E r \in BagToSet(pending) :
         /\ r.op = "deleteDoc"
         /\ pending' = Settle(r)
    /\ lastOp' = "deleteDoc resolved"
    /\ UNCHANGED << db, saveButton, subscribed, saveHandler, input, notesList,
                    lastSnapshot, delivered, console, uncaught >>
    /\ UNCHANGED << booted, weatherVars, calendarVars >>

\* lines 160-162: the store refuses a delete; the catch block logs it.
deleteDocRejected ==
    /\ \E r \in BagToSet(pending) :
         /\ r.op = "deleteDoc"
         /\ pending' = Settle(r)
    /\ console' = console \cup {"Error deleting note:"}
    /\ lastOp' = "deleteDoc rejected"
    /\ UNCHANGED << db, saveButton, subscribed, saveHandler, input, notesList,
                    lastSnapshot, delivered, uncaught >>
    /\ UNCHANGED << booted, weatherVars, calendarVars >>

-----------------------------------------------------------------------------
(* The calendar viewer.                                                    *)

\* Most events.list requests, and most signIn/signOut requests, in flight.
MaxListReqs == 2
MaxAuthReqs == 2
\* Most events of one response.
MaxEvents == 2

\* style.display of a button before the script sets it: no inline style.
InitialDisplay == ""

\* An event's start is a dateTime or, for an all-day event, a date; the
\* field that is missing reads as undefined, here "".
TimedEvent ==
    [dateTime |-> "2026-01-05T09:00:00Z", date |-> "", summary |-> "Standup"]
AllDayEvent ==
    [dateTime |-> "", date |-> "2026-01-06", summary |-> "Holiday"]
\* An event carrying both fields, to tell which of them the script reads.
BothEvent ==
    [dateTime |-> "2026-01-05T09:00:00Z", date |-> "2026-01-06",
     summary |-> "Both"]
CalendarEvents == {TimedEvent, AllDayEvent, BothEvent}

\* line 287: the cap the request asks the calendar service to apply.
maxResults == 10

\* A bug: the request asks for one event more.
ListParams_oneMore == [calendarId |-> "primary", maxResults |-> maxResults + 1]

\* lines 282-289: the parameters of the events.list request.
ListParams == [calendarId |-> "primary", maxResults |-> maxResults]

\* The event lists a response may carry.  The service returns at most
\* maxResults events: every list of up to MaxEvents events, and one list
\* of each greater length up to the cap.
EventLists ==
    UNION {[1..n -> CalendarEvents] : n \in 0..MaxEvents} \cup
    {[i \in 1..n |-> IF i % 2 = 1 THEN TimedEvent ELSE AllDayEvent] :
        n \in (MaxEvents + 1)..ListParams.maxResults}

\* What an events.list response carries: result.items, or no items at all.
ListResponses ==
    {[items |-> TRUE, events |-> es] : es \in EventLists} \cup
    {[items |-> FALSE, events |-> << >>]}

\* new Date(when).toLocaleString(): the instant in the browser's locale.
toLocaleString(when) ==
    CASE when = "2026-01-05T09:00:00Z" -> "1/5/2026, 9:00:00 AM"
      [] when = "2026-01-06" -> "1/6/2026, 12:00:00 AM"
      [] OTHER -> "Invalid Date"

\* The separator of line 298, U+2014 between two spaces; the dash is written
\* "--" here, the module's character set having no U+2014.
EmDash == " -- "

\* lines 296-298: the text of one event's item.
EventText(event) ==
    LET when == IF event.dateTime # "" THEN event.dateTime ELSE event.date
    IN  toLocaleString(when) \o EmDash \o event.summary

\* A bug: the request is issued twice (e.g. once more from a retry).
listUpcomingEvents_twice ==
    /\ listReqs + 1 < MaxListReqs
    /\ listReqs' = listReqs + 2

\* lines 280-289: listUpcomingEvents issues one events.list request.
listUpcomingEvents ==
    /\ listReqs < MaxListReqs
    /\ listReqs' = listReqs + 1

\* A bug: the sign-out button is shown in both branches.
updateSigninStatus_bothShown(signedIn) ==
    IF signedIn
    THEN /\ authorizeButton' = "none"
         /\ signoutButton' = "inline-block"
         /\ listUpcomingEvents
         /\ UNCHANGED events
    ELSE /\ authorizeButton' = "inline-block"
         /\ signoutButton' = "inline-block"
         /\ events' = << >>
         /\ UNCHANGED listReqs

\* lines 247-260: updateSigninStatus.
updateSigninStatus(signedIn) ==
    IF signedIn
    THEN /\ authorizeButton' = "none"
         /\ signoutButton' = "inline-block"
         /\ listUpcomingEvents
         /\ UNCHANGED events
    ELSE /\ authorizeButton' = "inline-block"
         /\ signoutButton' = "none"
         /\ events' = << >>
         /\ UNCHANGED listReqs

SigninOp(signedIn) ==
    IF signedIn THEN "updateSigninStatus(true)" ELSE "updateSigninStatus(false)"

\* line 323: gapi has loaded 'client:auth2' and calls initClient, which
\* calls gapi.client.init (lines 220-227).
initClient ==
    /\ gpc = "loading"
    /\ gpc' = "initialising"
    /\ calOp' = "initClient"
    /\ UNCHANGED << listening, isSignedIn, authorizeButton, signoutButton,
                    clickHandlers, events, listReqs, authReqs, console, uncaught >>
    /\ UNCHANGED << booted, weatherVars, notesVars >>
    /\ UNCHANGED lastResponse

\* lines 228-236: gapi.client.init resolves.  The user may be signed in
\* already, from an earlier visit.
initResolved ==
    /\ gpc = "initialising"
    /\ gpc' = "ready"
    /\ listening' = TRUE
    /\ \E signedIn \in BOOLEAN :
         /\ isSignedIn' = signedIn
         /\ updateSigninStatus(signedIn)
         /\ calOp' = SigninOp(signedIn)
    /\ clickHandlers' = TRUE
    /\ UNCHANGED << authReqs, console, uncaught >>
    /\ UNCHANGED << booted, weatherVars, notesVars >>
    /\ UNCHANGED lastResponse

\* lines 237-239: gapi.client.init rejects.
initRejected ==
    /\ gpc = "initialising"
    /\ gpc' = "failed"
    /\ console' = console \cup {"Error initialising Google API client"}
    /\ calOp' = "init rejected"
    /\ UNCHANGED << listening, isSignedIn, authorizeButton, signoutButton,
                    clickHandlers, events, listReqs, authReqs, uncaught >>
    /\ UNCHANGED << booted, weatherVars, notesVars >>
    /\ UNCHANGED lastResponse

\* lines 265-267: a click on #authorize_button while it is displayed.
handleAuthClick ==
    /\ clickHandlers
    /\ authorizeButton # "none"
    /\ BagCardinality(authReqs) < MaxAuthReqs
    /\ authReqs' = authReqs (+) SetToBag({"signIn"})
    /\ calOp' = "handleAuthClick"
    /\ UNCHANGED << gpc, listening, isSignedIn, authorizeButton, signoutButton,
                    clickHandlers, events, listReqs, console, uncaught >>
    /\ UNCHANGED << booted, weatherVars, notesVars >>
    /\ UNCHANGED lastResponse

\* lines 272-274: a click on #signout_button while it is displayed.
handleSignoutClick ==
    /\ clickHandlers
    /\ signoutButton # "none"
    /\ BagCardinality(authReqs) < MaxAuthReqs
    /\ authReqs' = authReqs (+) SetToBag({"signOut"})
    /\ calOp' = "handleSignoutClick"
    /\ UNCHANGED << gpc, listening, isSignedIn, authorizeButton, signoutButton,
                    clickHandlers, events, listReqs, console, uncaught >>
    /\ UNCHANGED << booted, weatherVars, notesVars >>
    /\ UNCHANGED lastResponse

\* line 230: a signIn (signOut) request completes; when the sign-in state
\* changes by it, gapi calls the listener.
authResolved ==
    /\ \E r \in BagToSet(authReqs) :
         /\ authReqs' = authReqs (-) SetToBag({r})
         /\ LET signedIn == (r = "signIn") IN
            /\ isSignedIn' = signedIn
            /\ IF listening /\ signedIn # isSignedIn
               THEN /\ updateSigninStatus(signedIn)
                    /\ calOp' = SigninOp(signedIn)
               ELSE /\ calOp' = "auth resolved: no change"
                    /\ UNCHANGED << authorizeButton, signoutButton, events,
                                    listReqs >>
    /\ UNCHANGED << gpc, listening, clickHandlers, console, uncaught >>
    /\ UNCHANGED << booted, weatherVars, notesVars >>
    /\ UNCHANGED lastResponse

\* lines 266, 273: a signIn (signOut) request fails, e.g. the user closes
\* the consent window; its promise has no rejection handler.
authRejected ==
    /\ \E r \in BagToSet(authReqs) :
         /\ authReqs' = authReqs (-) SetToBag({r})
         /\ uncaught' = uncaught \cup {r}
    /\ calOp' = "auth rejected"
    /\ UNCHANGED << gpc, listening, isSignedIn, authorizeButton, signoutButton,
                    clickHandlers, events, listReqs, console >>
    /\ UNCHANGED << booted, weatherVars, notesVars >>
    /\ UNCHANGED lastResponse

\* lines 307-309: the catch callback of listUpcomingEvents.
listCatch == console' = console \cup {"Error fetching events"}

RECURSIVE AppendEvents(_, _)
AppendEvents(list, es) ==
    IF es = << >>
    THEN list
    ELSE AppendEvents(Append(list, EventText(Head(es))), Tail(es))

\* lines 290-306: an events.list request resolves.  The list is emptied,
\* then events.length is read: without items that throws a TypeError into
\* the catch callback.
listResolved ==
    /\ listReqs > 0
    /\ listReqs' = listReqs - 1
    /\ \E response \in ListResponses :
         LET cleared == << >> IN
         /\ lastResponse' = response
         /\ IF ~response.items
            THEN /\ events' = cleared
                 /\ listCatch
                 /\ calOp' = "list resolved: no items"
            ELSE /\ events' = IF Len(response.events) > 0
                              THEN AppendEvents(cleared, response.events)
                              ELSE Append(cleared, "No upcoming events found.")
                 /\ calOp' = "list resolved"
                 /\ UNCHANGED console
    /\ UNCHANGED << gpc, listening, isSignedIn, authorizeButton, signoutButton,
                    clickHandlers, authReqs, uncaught >>
    /\ UNCHANGED << booted, weatherVars, notesVars >>

\* lines 307-309: an events.list request rejects.
listRejected ==
    /\ listReqs > 0
    /\ listReqs' = listReqs - 1
    /\ listCatch
    /\ calOp' = "list rejected"
    /\ UNCHANGED << gpc, listening, isSignedIn, authorizeButton, signoutButton,
                    clickHandlers, events, authReqs, uncaught >>
    /\ UNCHANGED << booted, weatherVars, notesVars >>
    /\ UNCHANGED lastResponse

-----------------------------------------------------------------------------
(* The bootstrap and the specifications.                                   *)

\* lines 46-55 and the page's markup: the state when the module has been
\* evaluated.  initializeApp/getFirestore may have thrown, leaving db unset.
Init ==
    /\ booted = FALSE
    /\ uncaught = {}
    /\ \E d \in {"firestore", "undefined"} :
         /\ db = d
         /\ console = IF d = "undefined"
                      THEN {"Firebase could not be initialized."}
                      ELSE {}
    /\ wpc = [l \in Loc |-> "idle"]
    /\ wdata = [l \in Loc |-> NoData("none")]
    /\ interpArg = [l \in Loc |-> NotCalled]
    /\ text = [e \in WeatherElems |-> InitialText]
    /\ saveButton = [disabled |-> FALSE, textContent |-> "Save"]
    /\ subscribed = FALSE
    /\ saveHandler = FALSE
    /\ input = << >>
    /\ pending = EmptyBag
    /\ notesList = << >>
    /\ lastSnapshot = << >>
    /\ delivered = FALSE
    /\ lastOp = "none"
    /\ gpc = "unloaded"
    /\ listening = FALSE
    /\ isSignedIn = FALSE
    /\ authorizeButton = InitialDisplay
    /\ signoutButton = InitialDisplay
    /\ clickHandlers = FALSE
    /\ events = << >>
    /\ listReqs = 0
    /\ authReqs = EmptyBag
    /\ lastResponse = [items |-> FALSE, events |-> << >>]
    /\ calOp = "none"

\* lines 115-118: a call of fetchWeather runs up to `await fetch(url)`.
fetchWeatherCalled == wpc' = [l \in Loc |-> "await fetch"]

\* lines 321-330: window.initGoogle.
initGoogle ==
    /\ ~booted
    /\ booted' = TRUE
    /\ gpc' = "loading"
    /\ initNotes
    /\ fetchWeatherCalled
    /\ lastOp' = "initNotes"
    /\ UNCHANGED << console, uncaught, wdata, interpArg, text, db, input,
                    pending, notesList, lastSnapshot, delivered, listening,
                    isSignedIn, authorizeButton, signoutButton, clickHandlers,
                    events, listReqs, authReqs, lastResponse, calOp >>

NextWeather ==
    \/ initGoogle
    \/ \E l \in Loc : fetchResolved(l)
    \/ \E l \in Loc : fetchRejected(l)
    \/ \E l \in Loc : jsonResolved(l)
    \/ \E l \in Loc : jsonRejected(l)

NextNotes ==
    \/ initGoogle
    \/ snapshotDelivered
    \/ typeNote
    \/ saveNoteClick
    \/ addDocResolved
    \/ addDocRejected
    \/ deleteClick
    \/ deleteDocResolved
    \/ deleteDocRejected

NextCalendar ==
    \/ initGoogle
    \/ initClient
    \/ initResolved
    \/ initRejected
    \/ handleAuthClick
    \/ handleSignoutClick
    \/ authResolved
    \/ authRejected
    \/ listResolved
    \/ listRejected

\* What the bootstrap left of each component, no step of it taken yet.
WeatherUntouched == \A l \in Loc : wpc[l] = "await fetch"
NotesUntouched == lastOp = "initNotes"
CalendarUntouched == calOp = "none"

\* The three components side by side: the bootstrap, then the steps of
\* any one component while the other two rest.
NextComponents ==
    \/ initGoogle
    \/ NotesUntouched /\ CalendarUntouched /\ \E l \in Loc : fetchResolved(l)
    \/ NotesUntouched /\ CalendarUntouched /\ \E l \in Loc : fetchRejected(l)
    \/ NotesUntouched /\ CalendarUntouched /\ \E l \in Loc : jsonResolved(l)
    \/ NotesUntouched /\ CalendarUntouched /\ \E l \in Loc : jsonRejected(l)
    \/ WeatherUntouched /\ CalendarUntouched /\ snapshotDelivered
    \/ WeatherUntouched /\ CalendarUntouched /\ typeNote
    \/ WeatherUntouched /\ CalendarUntouched /\ saveNoteClick
    \/ WeatherUntouched /\ CalendarUntouched /\ addDocResolved
    \/ WeatherUntouched /\ CalendarUntouched /\ addDocRejected
    \/ WeatherUntouched /\ CalendarUntouched /\ deleteClick
    \/ WeatherUntouched /\ CalendarUntouched /\ deleteDocResolved
    \/ WeatherUntouched /\ CalendarUntouched /\ deleteDocRejected
    \/ WeatherUntouched /\ NotesUntouched /\ initClient
    \/ WeatherUntouched /\ NotesUntouched /\ initResolved
    \/ WeatherUntouched /\ NotesUntouched /\ initRejected
    \/ WeatherUntouched /\ NotesUntouched /\ handleAuthClick
    \/ WeatherUntouched /\ NotesUntouched /\ handleSignoutClick
    \/ WeatherUntouched /\ NotesUntouched /\ authResolved
    \/ WeatherUntouched /\ NotesUntouched /\ authRejected
    \/ WeatherUntouched /\ NotesUntouched /\ listResolved
    \/ WeatherUntouched /\ NotesUntouched /\ listRejected

SpecWeather == Init /\ [][NextWeather]_vars
SpecComponents == Init /\ [][NextComponents]_vars
SpecNotes == Init /\ [][NextNotes]_vars
SpecCalendar == Init /\ [][NextCalendar]_vars

-----------------------------------------------------------------------------
(* The weather display: C1 to C4, under SpecWeather.                       *)

\* The keys of the WMO table, as the specification lists them.
WMOKeys ==
    {0, 1, 2, 3, 45, 48, 51, 53, 55, 56, 57, 61, 63, 65, 66, 67, 71, 73, 75,
     77, 80, 81, 82, 85, 86, 95, 96, 99}

Rendered(l) ==
    /\ wpc[l] = "done"
    /\ wdata[l].kind = "object"
    /\ wdata[l].current_weather.kind = "object"

\* C1: interpretWeatherCode, applied to an integer code, yields exactly the
\* string the table maps a key to, and exactly "Unknown conditions" for
\* every integer that is no key of the table (13, -1, 9999).
C1_InterpretWeatherCode ==
    /\ DOMAIN weatherCodeMap = WMOKeys
    /\ \A l \in Loc :
         (interpArg[l] # NotCalled /\ interpArg[l].kind = "num") =>
            LET c == interpArg[l].v
                d == text[descElemId(l)]
            IN  /\ c \in WMOKeys => d = weatherCodeMap[c]
                /\ c \notin WMOKeys => d = "Unknown conditions"
                /\ c = 0 => d = "Clear sky"
                /\ c = 3 => d = "Overcast"
                /\ c = 99 => d = "Thunderstorm with heavy hail"

C1_Witness ==
    /\ interpArg["aarhus"] = Num(0)
    /\ text["aarhus-desc"] = "Clear sky"
    /\ interpArg["newton"] = Num(9999)
    /\ text["newton-desc"] = "Unknown conditions"

\* C2: a fetch that ended in a non-success status, a network exception or
\* a body that does not parse leaves "Error fetching weather" in the
\* temperature slot and nothing in the description slot, and its failure
\* reaches the catch block: nothing is left uncaught.
C2_FetchFailure ==
    \A l \in Loc :
        (wpc[l] = "done" /\ wdata[l].kind \in FailureKinds) =>
            /\ text[tempElemId(l)] = "Error fetching weather"
            /\ text[descElemId(l)] = ""
            /\ "fetchWeather" \notin uncaught

C2_Witness ==
    /\ wpc["aarhus"] = "done"
    /\ wdata["aarhus"].kind = "http status"
    /\ text["aarhus-temp"] = "Error fetching weather"
    /\ wpc["newton"] = "done"
    /\ wdata["newton"].kind = "parse"
    /\ text["newton-desc"] = ""

\* C3: a successful response whose payload has no current_weather leaves
\* "No data available" in the temperature slot and nothing in the
\* description slot, and interpretWeatherCode is not called.
C3_NoCurrentWeather ==
    \A l \in Loc :
        (/\ wpc[l] = "done"
         /\ wdata[l].kind = "object"
         /\ wdata[l].current_weather.kind = "undefined") =>
            /\ text[tempElemId(l)] = "No data available"
            /\ text[descElemId(l)] = ""
            /\ interpArg[l] = NotCalled

C3_Witness ==
    /\ wpc["newton"] = "done"
    /\ wdata["newton"].kind = "object"
    /\ wdata["newton"].current_weather.kind = "undefined"
    /\ text["newton-temp"] = "No data available"
    /\ text["newton-desc"] = ""

\* The decimal form of each temperature of Temps, with the suffix.
ExpectedTemperature ==
    (214 :> "21.4°C") @@ (210 :> "21°C") @@ (0 :> "0°C") @@ (-35 :> "-3.5°C")

\* C4: a successful response with temperature t and weather code c leaves
\* t followed by "°C" in the temperature slot and interpretWeatherCode(c)
\* in the description slot; 21.4 and 3 give "21.4°C" and "Overcast".
C4_Rendering ==
    \A l \in Loc :
        LET current == wdata[l].current_weather IN
        (/\ Rendered(l)
         /\ current.temperature.kind = "num"
         /\ current.weathercode.kind = "num") =>
            /\ text[tempElemId(l)] = ExpectedTemperature[current.temperature.v]
            /\ text[descElemId(l)] = interpretWeatherCode(current.weathercode)
            /\ (current.temperature.v = 214 /\ current.weathercode.v = 3) =>
                  /\ text[tempElemId(l)] = "21.4°C"
                  /\ text[descElemId(l)] = "Overcast"

C4_Witness ==
    /\ Rendered("aarhus")
    /\ wdata["aarhus"].current_weather.temperature = Num(214)
    /\ wdata["aarhus"].current_weather.weathercode = Num(3)
    /\ text["aarhus-temp"] = "21.4°C"
    /\ text["aarhus-desc"] = "Overcast"
    /\ Rendered("newton")
    /\ wdata["newton"].current_weather.temperature = Num(-35)
    /\ text["newton-temp"] = "-3.5°C"

-----------------------------------------------------------------------------
(* The notes list: C5 to C9, under SpecNotes.                              *)

\* The step is a click on #save-note.
SaveClicked ==
    lastOp' \in {"save click: empty", "save click: addDoc",
                 "save click: no listener"}

WhitespaceOnly(s) == \A i \in 1..Len(s) : s[i] \in Whitespace

\* t is s without its leading and trailing whitespace.
IsTrimmed(t, s) ==
    /\ t # << >> => (t[1] \notin Whitespace /\ t[Len(t)] \notin Whitespace)
    /\ \E i \in 0..Len(s) :
         /\ i + Len(t) <= Len(s)
         /\ SubSeq(s, i + 1, i + Len(t)) = t
         /\ \A k \in 1..Len(s) :
              (k <= i \/ k > i + Len(t)) => s[k] \in Whitespace

\* C5: a click on the save control while the input is empty or holds only
\* whitespace issues no request to the store (no create, no delete, no
\* subscription) and leaves the input as it was.
C5_EmptySubmit ==
    [][(SaveClicked /\ WhitespaceOnly(input)) =>
          /\ pending' = pending
          /\ subscribed' = subscribed
          /\ input' = input]_vars

C5_Witness ==
    /\ saveHandler
    /\ lastOp = "save click: empty"
    /\ input = << " ", " " >>
    /\ pending = EmptyBag

\* C6: a click on the save control, its listener registered, while the
\* trimmed input s is not empty issues exactly one create request with
\* body {text: s} and leaves the input; when a create request succeeds the
\* input becomes the empty string.
C6_Submit ==
    /\ [][(SaveClicked /\ saveHandler /\ ~WhitespaceOnly(input)) =>
             /\ \E t \in Inputs :
                  /\ IsTrimmed(t, input)
                  /\ pending' = pending (+) SetToBag({AddDocReq(t)})
             /\ BagCardinality(pending') = BagCardinality(pending) + 1
             /\ input' = input]_vars
    /\ [][lastOp' = "addDoc resolved" =>
             /\ input' = << >>
             /\ BagCardinality(pending') = BagCardinality(pending) - 1]_vars

C6_Witness ==
    /\ lastOp = "addDoc resolved"
    /\ input = << >>
    /\ pending = SetToBag({AddDocReq(<< "a" >>)})

\* C7: when a create request fails the input keeps what it holds, nothing
\* of the page changes (the failure is only logged), and the failure is
\* caught in the click listener.
C7_SubmitFailure ==
    [][lastOp' = "addDoc rejected" =>
          /\ input' = input
          /\ UNCHANGED << notesList, saveButton, text, events,
                          authorizeButton, signoutButton >>
          /\ "Error adding note:" \in console'
          /\ uncaught' = uncaught]_vars

C7_Witness ==
    /\ lastOp = "addDoc rejected"
    /\ input = << "a", " " >>
    /\ "Error adding note:" \in console
    /\ uncaught = {}

\* C8: once a snapshot has been delivered, #notes-list is the rendering of
\* the snapshot delivered last: one item per document, in the snapshot's
\* order, with the document's text and a delete action for the document's
\* id, and nothing else.
C8_NotesRendering ==
    delivered =>
        /\ Len(notesList) = Len(lastSnapshot)
        /\ \A i \in 1..Len(lastSnapshot) :
             /\ notesList[i].text = lastSnapshot[i].text
             /\ notesList[i].del = lastSnapshot[i].id

\* An empty snapshot has replaced one that held document n1 (a delete of
\* n1, requested from the earlier rendering, is still in flight).
C8_Witness ==
    /\ delivered
    /\ lastSnapshot = << >>
    /\ notesList = << >>
    /\ InFlight(DeleteDocReq("n1"))

\* C9: when the store handle is unset, initNotes disables the save control
\* and labels it "Notes unavailable", registers no snapshot listener and
\* no click listener, and no request is ever issued to the store.
C9_DisabledMode ==
    (booted /\ db = "undefined") =>
        /\ saveButton = [disabled |-> TRUE, textContent |-> "Notes unavailable"]
        /\ ~subscribed
        /\ ~saveHandler
        /\ ~delivered
        /\ pending = EmptyBag
        /\ notesList = << >>

C9_Witness ==
    /\ db = "undefined"
    /\ saveButton.disabled
    /\ lastOp = "save click: no listener"
    /\ input = << "a" >>
    /\ pending = EmptyBag

-----------------------------------------------------------------------------
(* The calendar viewer: C10, under SpecCalendar.                           *)

Visible(display) == display # "none"

\* C10: a call of updateSigninStatus with true hides the authorize button,
\* shows the sign-out button and issues one events.list request; a call
\* with false shows the authorize button, hides the sign-out button and
\* empties the events list, issuing nothing.  Hence, once the callback has
\* run, exactly one of the two buttons is visible.
C10_SigninCallback ==
    /\ [][calOp' = "updateSigninStatus(true)" =>
             /\ authorizeButton' = "none"
             /\ signoutButton' = "inline-block"
             /\ listReqs' = listReqs + 1]_vars
    /\ [][calOp' = "updateSigninStatus(false)" =>
             /\ authorizeButton' = "inline-block"
             /\ signoutButton' = "none"
             /\ events' = << >>
             /\ listReqs' = listReqs]_vars
    /\ [](listening => (Visible(authorizeButton) # Visible(signoutButton)))

\* A second sign-in: two events.list requests are in flight, so a sign-in,
\* a sign-out and a sign-in have been reported.
C10_Witness ==
    /\ listening
    /\ calOp = "updateSigninStatus(true)"
    /\ isSignedIn
    /\ listReqs = 2
    /\ authorizeButton = "none"
    /\ signoutButton = "inline-block"

-----------------------------------------------------------------------------
(* The calendar listing: C11, C12 and C17, under SpecCalendar.             *)

\* C11: when an events.list response with an empty items array has been
\* handled, #events holds the single item "No upcoming events found.";
\* when one with events has been handled, it holds one item per event, in
\* the order received, each "<local start> -- <summary>" with the start
\* taken from dateTime if present and from date otherwise.  #events never
\* holds more than 10 items.
C11_Listing ==
    /\ Len(events) <= 10
    /\ calOp = "list resolved" =>
         LET es == lastResponse.events IN
         /\ es = << >> => events = << "No upcoming events found." >>
         /\ es # << >> =>
              /\ Len(events) = Len(es)
              /\ \A i \in 1..Len(es) :
                   LET start == IF es[i].dateTime # "" THEN es[i].dateTime
                                ELSE es[i].date
                   IN  /\ events[i] =
                            toLocaleString(start) \o " -- " \o es[i].summary
                       /\ es[i] = BothEvent =>
                            events[i] = "1/5/2026, 9:00:00 AM -- Both"
                       /\ es[i] = AllDayEvent =>
                            events[i] = "1/6/2026, 12:00:00 AM -- Holiday"

C11_Witness ==
    /\ calOp = "list resolved"
    /\ Len(lastResponse.events) = 10
    /\ Len(events) = 10
    /\ events[1] = "1/5/2026, 9:00:00 AM -- Standup"
    /\ events[10] = "1/6/2026, 12:00:00 AM -- Holiday"

\* C12: whenever an events.list request fails, by rejection or by an error
\* raised while its response is handled (a response without items), the
\* failure is logged and #events is what it was before.
C12_ListFailureKeepsList ==
    [][calOp' \in {"list rejected", "list resolved: no items"} =>
          /\ events' = events
          /\ "Error fetching events" \in console']_vars

\* C17: while the sign-in callback handled last reported signed-out,
\* #events is empty, however the callbacks interleave with the responses
\* of events.list requests still in flight.
C17_SignedOutNoEvents ==
    (listening /\ ~isSignedIn) => events = << >>

\* C13: every external call is made inside its own catch boundary, so no
\* failure of an external call is ever left uncaught.
C13_NoUncaught == uncaught = {}

-----------------------------------------------------------------------------
(* The weather payload and the two fetches: C15 and C18, under SpecWeather. *)

\* The successful response of l carried a malformed or absent payload: a
\* body that does not parse or is null, no current_weather, or a
\* current_weather without temperature or without weathercode.
MalformedPayload(l) ==
    \/ wdata[l].kind \in {"parse", "null"}
    \/ /\ wdata[l].kind = "object"
       /\ \/ wdata[l].current_weather.kind # "object"
          \/ wdata[l].current_weather.temperature = Undefined
          \/ wdata[l].current_weather.weathercode = Undefined

\* C15: a malformed or absent payload of a successful response is treated
\* as "no data": the temperature slot holds "No data available" and the
\* description slot is empty; it is never shown as an error and no
\* temperature is rendered from a missing value.
C15_MalformedIsNoData ==
    \A l \in Loc :
        (wpc[l] = "done" /\ MalformedPayload(l)) =>
            /\ text[tempElemId(l)] = "No data available"
            /\ text[descElemId(l)] = ""

Slots(l) == << text[tempElemId(l)], text[descElemId(l)] >>

\* C18: the two fetches are independent.  A step that is not a step of
\* location l's fetch leaves l's two slots as they are, so each fetch
\* writes its own slots only and a finished location keeps its content
\* whatever happens to the other; until its own response is handled a
\* location shows the page's placeholder; and two locations that received
\* the same outcome show the same content, in whatever order the responses
\* arrived.
C18_FetchesIndependent ==
    /\ [][\A l \in Loc :
             (wpc'[l] = wpc[l] \/ wpc'[l] # "done") =>
                 Slots(l)' = Slots(l)]_vars
    /\ [](\A l \in Loc :
             wpc[l] # "done" => Slots(l) = << InitialText, InitialText >>)
    /\ [](\A l1, l2 \in Loc :
             (wpc[l1] = "done" /\ wpc[l2] = "done" /\ wdata[l1] = wdata[l2])
                 => Slots(l1) = Slots(l2))

\* Newton's fetch has failed and Aarhus shows its own weather.
C18_Witness ==
    /\ wpc["newton"] = "done"
    /\ wdata["newton"].kind = "network"
    /\ Slots("newton") = << "Error fetching weather", "" >>
    /\ wpc["aarhus"] = "done"
    /\ Rendered("aarhus")
    /\ Slots("aarhus") = << "21.4°C", "Overcast" >>

-----------------------------------------------------------------------------
(* Note deletion: C16, under SpecNotes.                                    *)

\* C16: a click on the delete button of the i-th item issues exactly one
\* delete request, for the id of the i-th document of the snapshot the
\* list was rendered from; and #notes-list changes only when a snapshot
\* is delivered: no click listener and no outcome of a create or a delete
\* changes it.
C16_Deletion ==
    /\ [][\A i \in 1..Cardinality(DocIds) :
             lastOp' = DeleteOp(i) =>
                 /\ i <= Len(lastSnapshot)
                 /\ pending' =
                        pending (+) SetToBag({DeleteDocReq(lastSnapshot[i].id)})
                 /\ BagCardinality(pending') = BagCardinality(pending) + 1]_vars
    /\ [][notesList' # notesList => lastOp' = "snapshot"]_vars

\* The second item's delete button was clicked: a delete of its document
\* n1 is the one request in flight, and the list still shows both items.
C16_Witness ==
    /\ lastOp = DeleteOp(2)
    /\ lastSnapshot[1].id = "n2"
    /\ lastSnapshot[2].id = "n1"
    /\ pending = SetToBag({DeleteDocReq("n1")})
    /\ Len(notesList) = 2

-----------------------------------------------------------------------------
(* Single attempts: C14, under SpecComponents.                             *)

DeleteOps == {DeleteOp(i) : i \in 1..(Cardinality(DocIds) + 1)}

\* The step handles the outcome of a store request, of an events.list
\* request, of a signIn/signOut request that changed nothing or failed.
StoreOutcome ==
    lastOp' \in {"addDoc resolved", "addDoc rejected", "deleteDoc resolved",
                 "deleteDoc rejected"}
ListOutcome ==
    calOp' \in {"list resolved", "list resolved: no items", "list rejected"}
AuthOutcome == calOp' \in {"auth resolved: no change", "auth rejected"}

\* C14: nothing is retried or polled.  The page load puts one fetch in
\* flight per location and no later step does so again; a store request is
\* issued only by a save click or a delete click, an events.list request
\* only by a sign-in callback reporting signed-in, a signIn/signOut
\* request only by a click, one request per trigger; and the step that
\* handles the outcome of a request, success or failure, issues none.
C14_SingleAttempt ==
    [][/\ (~booted /\ booted') => \A l \in Loc : wpc'[l] = "await fetch"
       /\ booted => \A l \in Loc :
            wpc'[l] = "await fetch" =>
                (wpc[l] = "await fetch" /\ wdata'[l] = wdata[l])
       /\ BagCardinality(pending') > BagCardinality(pending) =>
            /\ BagCardinality(pending') = BagCardinality(pending) + 1
            /\ lastOp' \in {"save click: addDoc"} \cup DeleteOps
       /\ listReqs' > listReqs =>
            /\ listReqs' = listReqs + 1
            /\ calOp' = "updateSigninStatus(true)"
       /\ BagCardinality(authReqs') > BagCardinality(authReqs) =>
            /\ BagCardinality(authReqs') = BagCardinality(authReqs) + 1
            /\ calOp' \in {"handleAuthClick", "handleSignoutClick"}
       /\ StoreOutcome =>
            /\ pending' \sqsubseteq pending
            /\ BagCardinality(pending') = BagCardinality(pending) - 1
       /\ ListOutcome =>
            /\ listReqs' = listReqs - 1
            /\ authReqs' = authReqs
       /\ AuthOutcome =>
            /\ authReqs' \sqsubseteq authReqs
            /\ listReqs' = listReqs
       /\ (StoreOutcome \/ ListOutcome \/ AuthOutcome) => wpc' = wpc]_vars

\* An events.list request has failed and none is in flight afterwards.
C14_Witness ==
    /\ calOp = "list rejected"
    /\ "Error fetching events" \in console
    /\ isSignedIn
    /\ listReqs = 0

====
